---- MODULE Spec2Model ----
(***************************************************************************)
(* gauth-server: the API-key gate (AuthHandler::handle), the five request  *)
(* callbacks (create, delete, verify, qr, qr_url) and the store wrapper    *)
(* (DB) they share behind one Mutex.  Worker threads of the HTTP framework *)
(* run handlers concurrently; every store call is a step of its own so     *)
(* that interleavings between the lock, the call and the return show.      *)
(***************************************************************************)
EXTENDS Integers, FiniteSets, Sequences, TLC

(***************************************************************************)
(* Bounds of the model.                                                    *)
(***************************************************************************)
MaxStep == 1
MaxId == 2
MaxRuns == 2

\* Two worker threads of the framework's pool.
Threads == {1, 2}
Steps == 0..MaxStep

(***************************************************************************)
(* Values of the requests.                                                 *)
(***************************************************************************)
NoVal == "none"
Idents == {"a", "b"}
\* the idents of verify, qr and qr_url requests (the idents are interchangeable)
LookupIdents == {"a"}
Seeds == {"s1", "s2"}
ApiKeys == {"k1", "kx"}
Endpoints == {"create", "delete", "verify", "qr", "qr_url"}

\* auth.secret_len, auth.default_width, auth.default_height of the config file
DefaultConf == [secret_len |-> 20, default_width |-> 200, default_height |-> 200]

\* conf.getuint("auth", "secret_len").unwrap().unwrap() as u8
SecretLen(c) == c.secret_len % 256

\* GoogleAuthenticator::create_secret(len): a random secret of len characters
create_secret(len) == {[seed |-> s, len |-> len] : s \in Seeds}

\* GoogleAuthenticator::get_code(secret, time_slice): the 6-digit code of a
\* secret at a time step.  HMAC-SHA1 and its truncation are idealised as
\* collision-free: a code is the pair it was derived from.
get_code(secret, step) ==
    [digits |-> 6, seed |-> secret.seed, len |-> secret.len, step |-> step]

\* body["code"] is no string / a string that is no 6-digit code
NoCode == [digits |-> 0, seed |-> NoVal, len |-> 0, step |-> 0]
ShortCode == [digits |-> 5, seed |-> "x", len |-> 0, step |-> 0]

\* The codes a client submits: the codes of the first secret at every step
\* (the secrets are interchangeable) and a string of another length.
SubmittedCodes ==
    {get_code([seed |-> "s1", len |-> SecretLen(DefaultConf)], k) : k \in Steps}
        \cup {ShortCode}

\* (mutant: one step of tolerance)
VerifyDiscrepancyOne == 0 + 1
\* the discrepancy argument of g.verify_code(&secret, code, 0, 0)
VerifyDiscrepancy == 0

\* GoogleAuthenticator::verify_code(secret, code, discrepancy, 0) at time
\* step cur: the code must have the code length and equal the code of a step
\* within the discrepancy of the current one.
verify_code(secret, code, discrepancy, cur) ==
    /\ code.digits = 6
    /\ \E k \in (cur - discrepancy)..(cur + discrepancy) :
          k >= 0 /\ code = get_code(secret, k)

\* A request as far as the handler has read it: the gate reads api_key, the
\* callback reads the other fields when it parses the body again.
Req(ep, parsable, key, ident, code, name, title) ==
    [ep |-> ep, parsable |-> parsable, api_key |-> key, ident |-> ident,
     code |-> code, name |-> name, title |-> title]

NoReq == Req(NoVal, FALSE, NoVal, NoVal, NoCode, NoVal, NoVal)

\* The fields of a body that the callback of an endpoint reads, present or
\* missing.
Bodies(ep) ==
    CASE ep \in {"create", "delete"} ->
            {Req(ep, TRUE, NoVal, i, NoCode, NoVal, NoVal) :
                i \in Idents \cup {NoVal}}
      [] ep = "verify" ->
            {Req(ep, TRUE, NoVal, i, c, NoVal, NoVal) :
                i \in LookupIdents \cup {NoVal}, c \in SubmittedCodes \cup {NoCode}}
      [] OTHER ->
            {Req(ep, TRUE, NoVal, i, NoCode, n, ti) :
                i \in LookupIdents \cup {NoVal}, n \in {"n", NoVal}, ti \in {"t", NoVal}}

VARIABLES
    secrets,    \* table secrets: records [id, ident, token]
    loc_auth,   \* table loc_auth: records [host, api_key]
    nextId,     \* the next id the store assigns
    connUp,     \* the one Client connection is alive
    lock,       \* holder of the Mutex<DB>, 0 when free
    poisoned,   \* a thread panicked while holding the Mutex
    inStore,    \* threads inside a store call
    now,        \* the current 30-second time step
    conf,       \* the loaded configuration
    pc,         \* where each worker thread is
    req,        \* the request a thread handles
    gen,        \* the secret create generated
    sec,        \* the secret get_secret returned
    auth,       \* the gate's lookup succeeded for this request
    opSteps,    \* lifecycle / TOTP steps run for this request
    fault,      \* the store failure this request met
    issued,     \* per ident, the secret the last successful create returned
    resp,       \* the response of the request
    last,       \* a finished request: what it read and produced
    run,        \* a run of main beside the serving one
    stalled     \* the store has stopped answering

vars == <<secrets, loc_auth, nextId, connUp, lock, poisoned, inStore, now,
          conf, pc, req, gen, sec, auth, opSteps, fault, issued, resp, last,
          run, stalled>>


(***************************************************************************)
(* The store: lib/db.rs.  A call fails with a DbError ("db", "unique") or  *)
(* with an error that is no DbError: "conn" (the connection is gone) and   *)
(* "rowcount" (query_one did not find exactly one row).                    *)
(***************************************************************************)
NoToken == [seed |-> NoVal, len |-> 0]
NoRow == [id |-> 0, ident |-> NoVal, token |-> NoToken, host |-> NoVal]

OkRes(row) == [ok |-> TRUE, err |-> "none", row |-> row]
ErrRes(e) == [ok |-> FALSE, err |-> e, row |-> NoRow]

\* e.root_cause().downcast_ref::<DbError>() is Some
IsDbError(e) == e \in {"db", "unique"}

\* What a store call can meet: a live connection answers or reports a
\* database error; a lost connection fails every call.
StoreFaults == IF connUp THEN {"none", "db"} ELSE {"conn"}

\* (mutant: no row is answered with an empty row instead of an error)
QueryOneOrEmpty(rows) ==
    IF rows = {} THEN OkRes(NoRow) ELSE OkRes(CHOOSE r \in rows : TRUE)
\* Client::query_one: exactly one row, or an error
query_one(rows) ==
    IF Cardinality(rows) = 1
    THEN OkRes(CHOOSE r \in rows : TRUE)
    ELSE ErrRes("rowcount")

\* DB::get_host_for_api_key
DB_get_host_for_api_key(api_key, f) ==
    IF f # "none" THEN ErrRes(f)
    ELSE query_one({[NoRow EXCEPT !.host = r.host] :
                        r \in {x \in loc_auth : x.api_key = api_key}})

\* The uniqueness constraint of loc_auth.api_key (the schema of the table)
KeyTaken(api_key) == \E r \in loc_auth : r.api_key = api_key

\* DB::add_api_key: the result of the INSERT
DB_add_api_key(host, api_key, f) ==
    IF f # "none" THEN ErrRes(f)
    ELSE IF KeyTaken(api_key) THEN ErrRes("unique")
    ELSE OkRes([NoRow EXCEPT !.host = host])

\* (mutant: the INSERT with its two values in the other order)
AddedBindingsSwapped(host, api_key, f) ==
    IF f # "none" \/ KeyTaken(api_key) THEN loc_auth
    ELSE loc_auth \cup {[host |-> api_key, api_key |-> host]}
\* the table after DB::add_api_key
AddedBindings(host, api_key, f) ==
    IF DB_add_api_key(host, api_key, f).ok
    THEN loc_auth \cup {[host |-> host, api_key |-> api_key]}
    ELSE loc_auth

\* (mutant: a lookup that registers the key it does not find)
LookedUpRegisters(api_key, f) ==
    IF f = "none" /\ ~KeyTaken(api_key)
    THEN loc_auth \cup {[host |-> "h1", api_key |-> api_key]}
    ELSE loc_auth
\* the table after DB::get_host_for_api_key: a SELECT
LookedUpBindings(api_key, f) == loc_auth

\* DB::api_key_exists
DB_api_key_exists(api_key, f) ==
    DB_get_host_for_api_key(api_key, f).ok

\* The uniqueness constraint of secrets.ident (the schema of the table)
\* (mutant: the table has no such constraint)
IdentTakenNever(ident) == FALSE
IdentTaken(ident) == \E r \in secrets : r.ident = ident

\* DB::create_secret: the result of the INSERT
DB_create_secret(ident, secret, f) ==
    IF f # "none" THEN ErrRes(f)
    ELSE IF IdentTaken(ident) THEN ErrRes("unique")
    ELSE OkRes([NoRow EXCEPT !.id = nextId, !.ident = ident, !.token = secret])

\* (mutant: an INSERT that overwrites the token of an existing ident)
InsertedSecretsUpsert(ident, secret, f) ==
    IF f # "none" THEN secrets
    ELSE {r \in secrets : r.ident # ident}
            \cup {[id |-> nextId, ident |-> ident, token |-> secret]}
\* (mutant: every record gets the same id)
InsertedSecretsSameId(ident, secret, f) ==
    IF DB_create_secret(ident, secret, f).ok
    THEN secrets \cup {[id |-> 1, ident |-> ident, token |-> secret]}
    ELSE secrets
\* the table after DB::create_secret
InsertedSecrets(ident, secret, f) ==
    LET res == DB_create_secret(ident, secret, f)
    IN IF res.ok
       THEN secrets \cup {[id |-> res.row.id, ident |-> ident, token |-> secret]}
       ELSE secrets

\* DB::delete_secret: the result of the DELETE (zero rows is no error)
DB_delete_secret(ident, f) ==
    IF f # "none" THEN ErrRes(f) ELSE OkRes(NoRow)

\* (mutant: a DELETE without its WHERE clause)
DeleteAllRows(ident, f) == IF f # "none" THEN secrets ELSE {}
\* the table after DB::delete_secret
DeletedSecrets(ident, f) ==
    IF f # "none" THEN secrets ELSE {r \in secrets : r.ident # ident}

\* (mutant: the secret first seen for an ident is kept and answered later)
GetSecretCached(ident, f) ==
    IF f # "none" THEN ErrRes(f)
    ELSE query_one({[NoRow EXCEPT !.id = r.id, !.ident = r.ident,
                                  !.token = [r.token EXCEPT !.seed = "s1"]] :
                        r \in {x \in secrets : x.ident = ident}})
\* DB::get_secret
DB_get_secret(ident, f) ==
    IF f # "none" THEN ErrRes(f)
    ELSE query_one({[NoRow EXCEPT !.id = r.id, !.ident = r.ident, !.token = r.token] :
                        r \in {x \in secrets : x.ident = ident}})

\* DB::get_secret_by_id
DB_get_secret_by_id(id, f) ==
    IF f # "none" THEN ErrRes(f)
    ELSE query_one({[NoRow EXCEPT !.id = r.id, !.ident = r.ident, !.token = r.token] :
                        r \in {x \in secrets : x.id = id}})

(***************************************************************************)
(* Responses.  http = 0 stands for a handler that panicked: the client     *)
(* gets no response.                                                       *)
(***************************************************************************)
NoQr == [form |-> NoVal, token |-> NoToken]
NoResp == [http |-> 0, status |-> NoVal, message |-> NoVal, ident |-> NoVal,
           secret |-> NoToken, verified |-> NoVal, qr |-> NoQr]

\* Err(IronError::new(.., (status, message)))
IronErr(http, message) == [NoResp EXCEPT !.http = http, !.message = message]
\* Ok(Response::with((json, status::Ok, object!{status: false, message})))
JsonFail(message) ==
    [NoResp EXCEPT !.http = 200, !.status = "false", !.message = message]
JsonOk == [NoResp EXCEPT !.http = 200, !.status = "true"]
Panicked == [NoResp EXCEPT !.message = "panic"]


(***************************************************************************)
(* alib/handler.rs: the decisions of the gate and of the callbacks, as     *)
(* functions of what the store returned.                                   *)
(***************************************************************************)

\* (mutant: a lock that does not exclude)
MutexNeverBlocks(t) == TRUE
\* std::sync::Mutex::lock blocks while another thread holds the guard
MutexFree(t) == lock = 0

\* (mutant: the gate accepts the keys of one host only)
GateAcceptsOwnHost(res) == res.ok /\ res.row.host = "h1"
\* (mutant: the callback runs whatever the lookup returned)
GateAcceptsAll(res) == TRUE
\* AuthHandler::handle: host.is_err() ends the request
GateAccepts(res) == res.ok

\* validate_params over the fields the endpoint reads
MissingParams(r) ==
    CASE r.ep \in {"create", "delete"} -> r.ident = NoVal
      [] r.ep = "verify" -> r.ident = NoVal \/ r.code = NoCode
      [] OTHER -> r.ident = NoVal \/ r.name = NoVal \/ r.title = NoVal

\* conf.getuint("auth", key).unwrap().unwrap(): a missing or unparsable
\* value (-1 here) panics
ConfMissing(c, key) == c[key] < 0

\* (mutant: no case for error code 23505)
CreateFailGeneric(res) ==
    IF ~IsDbError(res.err) THEN Panicked
    ELSE JsonFail("Database error: db error")
\* create: what Err(e) of mdb.create_secret turns into
CreateFail(res) ==
    IF ~IsDbError(res.err) THEN Panicked
    ELSE IF res.err = "unique" THEN JsonFail("Database error: duplicate entry")
    ELSE JsonFail("Database error: db error")

\* (mutant: the response of create carries no secret)
CreateResponseNoSecret(res, ident, secret) ==
    IF ~res.ok THEN CreateFail(res) ELSE JsonOk
\* create: the response
CreateResponse(res, ident, secret) ==
    IF ~res.ok THEN CreateFail(res)
    ELSE [JsonOk EXCEPT !.ident = ident, !.secret = secret]

\* delete: the response
DeleteResponse(res) ==
    IF ~res.ok
    THEN IF ~IsDbError(res.err) THEN Panicked ELSE JsonFail("db error")
    ELSE JsonOk

\* get_secret: Ok(secret), or one IronError for every error of the store
get_secret(res) == res.ok

\* (mutant: a code that does not verify is answered as an error)
VerifyErrorsOnMismatch(res, code, cur) ==
    IF ~get_secret(res) THEN JsonFail("Invalid identity")
    ELSE IF verify_code(res.row.token, code, VerifyDiscrepancy, cur)
         THEN [JsonOk EXCEPT !.verified = "true"]
         ELSE IronErr(500, "Invalid code")
\* verify: the response
VerifyResponse(res, code, cur) ==
    IF ~get_secret(res) THEN JsonFail("Invalid identity")
    ELSE [JsonOk EXCEPT !.verified =
            IF verify_code(res.row.token, code, VerifyDiscrepancy, cur)
            THEN "true" ELSE "false"]

\* qr, qr_url: every Err of get_qr_data (missing parameters, a failed
\* lookup) is answered alike
QrDataFail(ep) ==
    JsonFail(IF ep = "qr" THEN "Failed to get qr data" ELSE "Failed to create qr url")

\* qr: the response; the renderer may fail
QrResponse(res, rendered) ==
    IF ~get_secret(res) THEN QrDataFail("qr")
    ELSE IF ~rendered THEN JsonFail("Failed to create qr code")
    ELSE [JsonOk EXCEPT !.qr = [form |-> "svg", token |-> res.row.token]]

\* qr_url: the response
QrUrlResponse(res) ==
    IF ~get_secret(res) THEN QrDataFail("qr_url")
    ELSE [JsonOk EXCEPT !.qr = [form |-> "url", token |-> res.row.token]]

(***************************************************************************)
(* The state after construction: get_router_w_routes wraps the connection  *)
(* in a fresh Mutex, no request is in progress.                            *)
(***************************************************************************)
InitAuth == {[host |-> "h1", api_key |-> "k1"]}

\* no run of main beside the serving one
NoRun == [pc |-> "none", host |-> "", api_key |-> NoVal, printed |-> <<>>,
          before |-> {}, n |-> 0]

\* The inputs of a request other than its api_key (the fields of the body,
\* the table without the store's ids, the time step, the generated secret,
\* the failures of the store and of the renderer) and what it produced.
NoLast ==
    [valid |-> FALSE, key |-> NoVal,
     input |-> [req |-> NoReq, table |-> {}, now |-> 0, gen |-> NoToken,
                fault |-> "none", render_failed |-> FALSE],
     output |-> [resp |-> NoResp, table |-> {}]]

Init ==
    /\ secrets = {}
    /\ loc_auth = InitAuth
    /\ nextId = 1
    /\ connUp = TRUE
    /\ lock = 0
    /\ poisoned = FALSE
    /\ inStore = {}
    /\ now = 0
    /\ conf = DefaultConf
    /\ pc = [t \in Threads |-> "idle"]
    /\ req = [t \in Threads |-> NoReq]
    /\ gen = [t \in Threads |-> NoToken]
    /\ sec = [t \in Threads |-> NoToken]
    /\ auth = [t \in Threads |-> FALSE]
    /\ opSteps = [t \in Threads |-> {}]
    /\ fault = [t \in Threads |-> "none"]
    /\ issued = [i \in Idents |-> NoToken]
    /\ resp = [t \in Threads |-> NoResp]
    /\ last = NoLast
    /\ run = NoRun
    /\ stalled = FALSE

\* A finished request hands its response back before anything else runs:
\* Finish touches the thread's own state only and commutes with every step.
NoneDone == \A u \in Threads : pc[u] # "done"

\* create requests being handled
Creating == {u \in Threads : req[u].ep = "create"}

\* the request ends with response r
Respond(t, r) ==
    /\ pc' = [pc EXCEPT ![t] = "done"]
    /\ resp' = [resp EXCEPT ![t] = r]

\* AuthHandler::handle up to the lock: the body is parsed and api_key read
Start(t, ep, parsable, key) ==
    /\ NoneDone
    /\ pc[t] = "idle"
    /\ ep = "create" => nextId + Cardinality(Creating) <= MaxId
    /\ req' = [req EXCEPT ![t] = [NoReq EXCEPT !.ep = ep, !.parsable = parsable,
                                              !.api_key = key]]
    /\ IF ~parsable
       THEN Respond(t, IronErr(400, "Invalid JSON request body"))
       ELSE IF key = NoVal
       THEN Respond(t, IronErr(400, "Request parameters missing"))
       ELSE pc' = [pc EXCEPT ![t] = "gate_lock"] /\ UNCHANGED resp
    /\ UNCHANGED <<secrets, loc_auth, nextId, connUp, lock, poisoned, inStore,
                   now, conf, gen, sec, auth, opSteps, fault, issued>>

\* self.db.lock().unwrap() / db.lock().unwrap() and the entry of the store
\* call under the guard; a poisoned Mutex panics the thread, which drops
\* the guard again
Lock(t, from, to, step) ==
    /\ NoneDone
    /\ pc[t] = from
    /\ MutexFree(t)
    /\ IF poisoned
       THEN Respond(t, Panicked) /\ UNCHANGED <<lock, inStore, opSteps>>
       ELSE /\ lock' = t
            /\ inStore' = inStore \cup {t}
            /\ opSteps' = [opSteps EXCEPT ![t] = @ \cup step]
            /\ pc' = [pc EXCEPT ![t] = to]
            /\ UNCHANGED resp
    /\ UNCHANGED <<secrets, loc_auth, nextId, connUp, poisoned, now, conf,
                   req, gen, sec, auth, fault, issued>>

\* the gate locks and enters mdb.get_host_for_api_key(api_key)
GateLock(t) == Lock(t, "gate_lock", "gate_ret", {})

\* The callback up to its own lock: the fields are read and validated, the
\* configuration is read, create generates its secret.
Callback(t, r, s) ==
    CASE r.ep = "create" ->
            IF ConfMissing(conf, "secret_len")
            THEN Respond(t, Panicked) /\ UNCHANGED <<gen, opSteps>>
            ELSE /\ gen' = [gen EXCEPT ![t] = s]
                 /\ opSteps' = [opSteps EXCEPT ![t] = @ \cup {"generate"}]
                 /\ IF MissingParams(r)
                    THEN Respond(t, IronErr(400, "Request parameters missing"))
                    ELSE pc' = [pc EXCEPT ![t] = "op_lock"] /\ UNCHANGED resp
      [] r.ep \in {"qr", "qr_url"} ->
            /\ UNCHANGED <<gen, opSteps>>
            /\ IF MissingParams(r)
               THEN Respond(t, QrDataFail(r.ep))
               ELSE IF ConfMissing(conf, "default_width")
                       \/ ConfMissing(conf, "default_height")
               THEN Respond(t, Panicked)
               ELSE pc' = [pc EXCEPT ![t] = "op_lock"] /\ UNCHANGED resp
      [] OTHER ->
            /\ UNCHANGED <<gen, opSteps>>
            /\ IF MissingParams(r)
               THEN Respond(t, IronErr(400, "Request parameters missing"))
               ELSE pc' = [pc EXCEPT ![t] = "op_lock"] /\ UNCHANGED resp

\* mdb.get_host_for_api_key returns; the guard is dropped at the end of the
\* block or by the early return; on success the callback starts.
GateRet(t) ==
    /\ NoneDone
    /\ pc[t] = "gate_ret"
    /\ \E f \in StoreFaults :
         LET res == DB_get_host_for_api_key(req[t].api_key, f) IN
         /\ loc_auth' = LookedUpBindings(req[t].api_key, f)
         /\ fault' = [fault EXCEPT ![t] = IF f = "none" THEN @ ELSE f]
         /\ IF GateAccepts(res)
            THEN \E b \in Bodies(req[t].ep),
                    s \in IF req[t].ep = "create"
                          THEN create_secret(SecretLen(conf)) ELSE {NoToken} :
                  LET r == [b EXCEPT !.api_key = req[t].api_key] IN
                  /\ auth' = [auth EXCEPT ![t] = res.ok]
                  /\ req' = [req EXCEPT ![t] = r]
                  /\ Callback(t, r, s)
            ELSE /\ Respond(t, IronErr(400, "Invalid api key"))
                 /\ UNCHANGED <<auth, req, gen, opSteps>>
    /\ inStore' = inStore \ {t}
    /\ lock' = 0
    /\ UNCHANGED <<secrets, nextId, connUp, poisoned, now, conf, sec, issued>>

\* the store call of the callback
StoreStep(ep) ==
    CASE ep = "create" -> "store_write"
      [] ep = "delete" -> "store_delete"
      [] OTHER -> "store_read"

\* the callback locks and enters its store call
OpLock(t) == Lock(t, "op_lock", "op_ret", {StoreStep(req[t].ep)})

\* a panic while the guard is alive poisons the Mutex
Poisons(r) == r = Panicked

\* create: mdb.create_secret returns, the response is built, the guard dropped
CreateRet(t) ==
    /\ NoneDone
    /\ pc[t] = "op_ret" /\ req[t].ep = "create"
    /\ \E f \in StoreFaults :
         LET res == DB_create_secret(req[t].ident, gen[t], f)
             r == CreateResponse(res, req[t].ident, gen[t]) IN
         /\ secrets' = InsertedSecrets(req[t].ident, gen[t], f)
         /\ nextId' = IF res.ok THEN nextId + 1 ELSE nextId
         /\ fault' = [fault EXCEPT ![t] = IF f = "none" THEN @ ELSE f]
         /\ poisoned' = (poisoned \/ Poisons(r))
         /\ issued' = IF r.status = "true"
                      THEN [issued EXCEPT ![req[t].ident] = r.secret]
                      ELSE issued
         /\ Respond(t, r)
    /\ inStore' = inStore \ {t}
    /\ lock' = 0
    /\ UNCHANGED <<loc_auth, connUp, now, conf, req, gen, sec, auth, opSteps>>

\* delete: mdb.delete_secret returns
DeleteRet(t) ==
    /\ NoneDone
    /\ pc[t] = "op_ret" /\ req[t].ep = "delete"
    /\ \E f \in StoreFaults :
         LET res == DB_delete_secret(req[t].ident, f)
             r == DeleteResponse(res) IN
         /\ secrets' = DeletedSecrets(req[t].ident, f)
         /\ fault' = [fault EXCEPT ![t] = IF f = "none" THEN @ ELSE f]
         /\ poisoned' = (poisoned \/ Poisons(r))
         /\ issued' = IF r.status = "true"
                      THEN [issued EXCEPT ![req[t].ident] = NoToken]
                      ELSE issued
         /\ Respond(t, r)
    /\ inStore' = inStore \ {t}
    /\ lock' = 0
    /\ UNCHANGED <<loc_auth, nextId, connUp, now, conf, req, gen, sec, auth,
                   opSteps>>

\* verify, qr, qr_url: get_secret returns and drops the guard; the code is
\* verified or the QR code rendered
LookupRet(t) ==
    /\ NoneDone
    /\ pc[t] = "op_ret" /\ req[t].ep \in {"verify", "qr", "qr_url"}
    /\ \E f \in StoreFaults, rendered \in BOOLEAN :
         LET res == DB_get_secret(req[t].ident, f) IN
         /\ req[t].ep # "qr" => rendered
         /\ sec' = [sec EXCEPT ![t] = IF get_secret(res) THEN res.row.token ELSE @]
         /\ fault' = [fault EXCEPT ![t] = IF f = "none" THEN @ ELSE f]
         /\ opSteps' = [opSteps EXCEPT ![t] =
                IF get_secret(res)
                THEN @ \cup {IF req[t].ep = "verify" THEN "verify" ELSE "render"}
                ELSE @]
         /\ Respond(t, CASE req[t].ep = "verify" ->
                              VerifyResponse(res, req[t].code, now)
                         [] req[t].ep = "qr" -> QrResponse(res, rendered)
                         [] OTHER -> QrUrlResponse(res))
    /\ inStore' = inStore \ {t}
    /\ lock' = 0
    /\ UNCHANGED <<secrets, loc_auth, nextId, connUp, poisoned, now, conf,
                   req, gen, auth, issued>>

\* the response is sent and the worker takes the next request
Finish(t) ==
    /\ pc[t] = "done"
    /\ pc' = [pc EXCEPT ![t] = "idle"]
    /\ req' = [req EXCEPT ![t] = NoReq]
    /\ gen' = [gen EXCEPT ![t] = NoToken]
    /\ sec' = [sec EXCEPT ![t] = NoToken]
    /\ auth' = [auth EXCEPT ![t] = FALSE]
    /\ opSteps' = [opSteps EXCEPT ![t] = {}]
    /\ fault' = [fault EXCEPT ![t] = "none"]
    /\ resp' = [resp EXCEPT ![t] = NoResp]
    /\ UNCHANGED <<secrets, loc_auth, nextId, connUp, lock, poisoned, inStore,
                   now, conf, issued>>

\* 30 seconds pass
Tick ==
    /\ NoneDone
    /\ now < MaxStep
    /\ now' = now + 1
    /\ UNCHANGED <<secrets, loc_auth, nextId, connUp, lock, poisoned, inStore,
                   conf, pc, req, gen, sec, auth, opSteps, fault, issued, resp>>

\* the connection to the database is lost; DB::new is the only connect
ConnLost ==
    /\ NoneDone
    /\ connUp
    /\ connUp' = FALSE
    /\ UNCHANGED <<secrets, loc_auth, nextId, lock, poisoned, inStore, now,
                   conf, pc, req, gen, sec, auth, opSteps, fault, issued, resp>>

Next ==
    \/ \E t \in Threads, ep \in Endpoints, parsable \in BOOLEAN,
          key \in ApiKeys \cup {NoVal} :
            (~parsable => key = NoVal) /\ Start(t, ep, parsable, key)
                /\ UNCHANGED <<last, run, stalled>>
    \/ \E t \in Threads : GateLock(t) /\ UNCHANGED <<last, run, stalled>>
    \/ \E t \in Threads : GateRet(t) /\ UNCHANGED <<last, run, stalled>>
    \/ \E t \in Threads : OpLock(t) /\ UNCHANGED <<last, run, stalled>>
    \/ \E t \in Threads : CreateRet(t) /\ UNCHANGED <<last, run, stalled>>
    \/ \E t \in Threads : DeleteRet(t) /\ UNCHANGED <<last, run, stalled>>
    \/ \E t \in Threads : LookupRet(t) /\ UNCHANGED <<last, run, stalled>>
    \/ \E t \in Threads : Finish(t) /\ UNCHANGED <<last, run, stalled>>
    \/ Tick /\ UNCHANGED <<last, run, stalled>>
    \/ ConnLost /\ UNCHANGED <<last, run, stalled>>

Spec == Init /\ [][Next]_vars

(***************************************************************************)
(* One worker, two bindings made by two runs of create-api-key for two     *)
(* hosts: the requests of a client are handled one after the other, with   *)
(* either key or with a key that has no binding.                           *)
(***************************************************************************)
InitAuthTwo == InitAuth \cup {[host |-> "h2", api_key |-> "k2"]}
ApiKeysTwo == ApiKeys \cup {"k2"}
Workers == {1}

\* the table as a request can observe it: the ids are the store's own
Records(table) == {[ident |-> r.ident, token |-> r.token] : r \in table}

\* thread t ends its request in this step
Ends(t) == pc[t] # "done" /\ pc'[t] = "done"

\* what the request that ends in this step read, apart from its api_key
Input(t) ==
    [req |-> [req'[t] EXCEPT !.api_key = NoVal], table |-> Records(secrets),
     now |-> now, gen |-> gen'[t], fault |-> fault'[t],
     render_failed |-> (resp'[t].message = "Failed to create qr code")]

\* what the request that ends in this step produced
Output(t) == [resp |-> resp'[t], table |-> Records(secrets')]

\* one finished request that had the key of the first binding and named the
\* first ident is remembered, for the requests after it to be compared with
\* (the bindings and the idents are interchangeable)
Record(t) ==
    \/ UNCHANGED last
    \/ /\ Ends(t)
       /\ ~last.valid
       /\ \E r \in InitAuth : r.api_key = req'[t].api_key
       /\ req'[t].ident \in LookupIdents
       /\ last' = [valid |-> TRUE, key |-> req'[t].api_key,
                   input |-> Input(t), output |-> Output(t)]

InitKeys ==
    /\ secrets = {}
    /\ loc_auth = InitAuthTwo
    /\ nextId = 1
    /\ connUp = TRUE
    /\ lock = 0
    /\ poisoned = FALSE
    /\ inStore = {}
    /\ now = 0
    /\ conf = DefaultConf
    /\ pc = [t \in Threads |-> "idle"]
    /\ req = [t \in Threads |-> NoReq]
    /\ gen = [t \in Threads |-> NoToken]
    /\ sec = [t \in Threads |-> NoToken]
    /\ auth = [t \in Threads |-> FALSE]
    /\ opSteps = [t \in Threads |-> {}]
    /\ fault = [t \in Threads |-> "none"]
    /\ issued = [i \in Idents |-> NoToken]
    /\ resp = [t \in Threads |-> NoResp]
    /\ last = NoLast
    /\ run = NoRun
    /\ stalled = FALSE

NextKeys ==
    \/ \E t \in Workers, ep \in Endpoints, parsable \in BOOLEAN,
          key \in ApiKeysTwo \cup {NoVal} :
            (~parsable => key = NoVal) /\ Start(t, ep, parsable, key)
                /\ Record(t) /\ UNCHANGED <<run, stalled>>
    \/ \E t \in Workers : GateLock(t) /\ Record(t) /\ UNCHANGED <<run, stalled>>
    \/ \E t \in Workers : GateRet(t) /\ Record(t) /\ UNCHANGED <<run, stalled>>
    \/ \E t \in Workers : OpLock(t) /\ Record(t) /\ UNCHANGED <<run, stalled>>
    \/ \E t \in Workers : CreateRet(t) /\ Record(t) /\ UNCHANGED <<run, stalled>>
    \/ \E t \in Workers : DeleteRet(t) /\ Record(t) /\ UNCHANGED <<run, stalled>>
    \/ \E t \in Workers : LookupRet(t) /\ Record(t) /\ UNCHANGED <<run, stalled>>
    \/ \E t \in Workers : Finish(t) /\ Record(t) /\ UNCHANGED <<run, stalled>>

SpecKeys == InitKeys /\ [][NextKeys]_vars

(***************************************************************************)
(* main.rs: a run of the program beside the serving one, with its own      *)
(* connection to the same database.  With --create-api-key <host> it adds  *)
(* a binding, prints the key and exits; without it the run goes on to      *)
(* serve.  One worker of the serving process handles requests meanwhile.   *)
(***************************************************************************)
Hosts == {"h1", "h2"}
\* thread_rng(): 32 alphanumerics, which may be a key that is bound already
NewKeys == {"k1", "k2"}

\* (mutant: the key is printed whatever add_api_key returned)
UnwrapIgnored(res) == "printing"
\* create_api_key(..).unwrap(): Err panics before the println
Unwrapped(res) == IF res.ok THEN "printing" ELSE "panicked"

\* main up to the branch on args.host: DB::new(..) connects or panics
MainStart(host, up) ==
    /\ NoneDone
    /\ run.pc = "none"
    /\ run.n < MaxRuns
    /\ run' = [pc |-> IF ~up THEN "panicked"
                      ELSE IF host # "" THEN "adding" ELSE "serving",
               host |-> host, api_key |-> NoVal, printed |-> <<>>,
               before |-> loc_auth, n |-> run.n + 1]
    /\ UNCHANGED <<secrets, loc_auth, nextId, connUp, lock, poisoned, inStore,
                   now, conf, pc, req, gen, sec, auth, opSteps, fault, issued,
                   resp, last, stalled>>

\* create_api_key: a key is drawn and db.add_api_key(host, &key)? runs
CreateApiKey(key) ==
    /\ NoneDone
    /\ run.pc = "adding"
    /\ \E f \in {"none", "db"} :
         /\ loc_auth' = AddedBindings(run.host, key, f)
         /\ run' = [run EXCEPT !.api_key = key,
                               !.pc = Unwrapped(DB_add_api_key(run.host, key, f))]
    /\ UNCHANGED <<secrets, nextId, connUp, lock, poisoned, inStore, now, conf,
                   pc, req, gen, sec, auth, opSteps, fault, issued, resp, last,
                   stalled>>

\* println!("New API key for {}: {}", ..); exit(0)
PrintKey ==
    /\ NoneDone
    /\ run.pc = "printing"
    /\ run' = [run EXCEPT !.printed = Append(@, run.api_key), !.pc = "exited"]
    /\ UNCHANGED <<secrets, loc_auth, nextId, connUp, lock, poisoned, inStore,
                   now, conf, pc, req, gen, sec, auth, opSteps, fault, issued,
                   resp, last, stalled>>

\* the process is gone; the program may be run again
MainEnd ==
    /\ NoneDone
    /\ run.pc \in {"exited", "panicked", "serving"}
    /\ run' = [NoRun EXCEPT !.n = run.n]
    /\ UNCHANGED <<secrets, loc_auth, nextId, connUp, lock, poisoned, inStore,
                   now, conf, pc, req, gen, sec, auth, opSteps, fault, issued,
                   resp, last, stalled>>

NextAdmin ==
    \/ \E t \in Workers, ep \in Endpoints, parsable \in BOOLEAN,
          key \in ApiKeysTwo \cup {NoVal} :
            (~parsable => key = NoVal) /\ Start(t, ep, parsable, key)
                /\ UNCHANGED <<last, run, stalled>>
    \/ \E t \in Workers : GateLock(t) /\ UNCHANGED <<last, run, stalled>>
    \/ \E t \in Workers : GateRet(t) /\ UNCHANGED <<last, run, stalled>>
    \/ \E t \in Workers : OpLock(t) /\ UNCHANGED <<last, run, stalled>>
    \/ \E t \in Workers : CreateRet(t) /\ UNCHANGED <<last, run, stalled>>
    \/ \E t \in Workers : DeleteRet(t) /\ UNCHANGED <<last, run, stalled>>
    \/ \E t \in Workers : LookupRet(t) /\ UNCHANGED <<last, run, stalled>>
    \/ \E t \in Workers : Finish(t) /\ UNCHANGED <<last, run, stalled>>
    \/ \E host \in Hosts \cup {""}, up \in BOOLEAN : MainStart(host, up)
    \/ \E key \in NewKeys : CreateApiKey(key)
    \/ PrintKey
    \/ MainEnd

SpecAdmin == Init /\ [][NextAdmin]_vars

(***************************************************************************)
(* The serving run under any configuration file main accepts: main reads   *)
(* the [db] and [main] sections and none of the [auth] values, which the   *)
(* callbacks read at each request.  A missing or unparsable value is -1.   *)
(* getuint yields a u64: secret_len may be 256 or more.                    *)
(***************************************************************************)
Confs ==
    [secret_len : {-1, 0, DefaultConf.secret_len, 256,
                   256 + DefaultConf.secret_len},
     default_width : {-1, DefaultConf.default_width},
     default_height : {-1, DefaultConf.default_height}]

InitConf ==
    /\ secrets = {}
    /\ loc_auth = InitAuth
    /\ nextId = 1
    /\ connUp = TRUE
    /\ lock = 0
    /\ poisoned = FALSE
    /\ inStore = {}
    /\ now = 0
    /\ conf \in Confs
    /\ pc = [t \in Threads |-> "idle"]
    /\ req = [t \in Threads |-> NoReq]
    /\ gen = [t \in Threads |-> NoToken]
    /\ sec = [t \in Threads |-> NoToken]
    /\ auth = [t \in Threads |-> FALSE]
    /\ opSteps = [t \in Threads |-> {}]
    /\ fault = [t \in Threads |-> "none"]
    /\ issued = [i \in Idents |-> NoToken]
    /\ resp = [t \in Threads |-> NoResp]
    /\ last = NoLast
    /\ run = NoRun
    /\ stalled = FALSE

NextConf ==
    \/ \E t \in Workers, ep \in Endpoints, parsable \in BOOLEAN,
          key \in ApiKeys \cup {NoVal} :
            (~parsable => key = NoVal) /\ Start(t, ep, parsable, key)
                /\ UNCHANGED <<last, run, stalled>>
    \/ \E t \in Workers : GateLock(t) /\ UNCHANGED <<last, run, stalled>>
    \/ \E t \in Workers : GateRet(t) /\ UNCHANGED <<last, run, stalled>>
    \/ \E t \in Workers : OpLock(t) /\ UNCHANGED <<last, run, stalled>>
    \/ \E t \in Workers : CreateRet(t) /\ UNCHANGED <<last, run, stalled>>
    \/ \E t \in Workers : DeleteRet(t) /\ UNCHANGED <<last, run, stalled>>
    \/ \E t \in Workers : LookupRet(t) /\ UNCHANGED <<last, run, stalled>>
    \/ \E t \in Workers : Finish(t) /\ UNCHANGED <<last, run, stalled>>

SpecConf == InitConf /\ [][NextConf]_vars

(***************************************************************************)
(* Progress.  The framework's pool runs a worker that can take a step: a   *)
(* store call that is answered returns, a response that is built is sent.  *)
(* A worker waiting in Mutex::lock gets the lock if the lock is released   *)
(* again and again (the futex queue of std::sync::Mutex and the scheduler  *)
(* of the OS; the Mutex itself promises no order).  Requests arrive or do  *)
(* not arrive.  The steps of a worker wait while another worker hands its  *)
(* response back (NoneDone), which is an order of the model and not a wait *)
(* of the program, so the returns are strongly fair too.                   *)
(***************************************************************************)
Returning(t) ==
    /\ GateRet(t) \/ CreateRet(t) \/ DeleteRet(t) \/ LookupRet(t) \/ Finish(t)
    /\ UNCHANGED <<last, run, stalled>>

Locking(t) ==
    /\ GateLock(t) \/ OpLock(t)
    /\ UNCHANGED <<last, run, stalled>>

Fairness ==
    \A t \in Threads : SF_vars(Returning(t)) /\ SF_vars(Locking(t))

NextLive ==
    \/ \E t \in Threads, ep \in Endpoints, parsable \in BOOLEAN,
          key \in ApiKeys \cup {NoVal} :
            (~parsable => key = NoVal) /\ Start(t, ep, parsable, key)
                /\ UNCHANGED <<last, run, stalled>>
    \/ \E t \in Threads : GateLock(t) /\ UNCHANGED <<last, run, stalled>>
    \/ \E t \in Threads : GateRet(t) /\ UNCHANGED <<last, run, stalled>>
    \/ \E t \in Threads : OpLock(t) /\ UNCHANGED <<last, run, stalled>>
    \/ \E t \in Threads : CreateRet(t) /\ UNCHANGED <<last, run, stalled>>
    \/ \E t \in Threads : DeleteRet(t) /\ UNCHANGED <<last, run, stalled>>
    \/ \E t \in Threads : LookupRet(t) /\ UNCHANGED <<last, run, stalled>>
    \/ \E t \in Threads : Finish(t) /\ UNCHANGED <<last, run, stalled>>
    \/ ConnLost /\ UNCHANGED <<last, run, stalled>>

SpecLive == Init /\ [][NextLive]_vars /\ Fairness

(***************************************************************************)
(* A store that stops answering.  The connection string of get_db_params   *)
(* sets no connect_timeout and no statement timeout, and the blocking      *)
(* Client waits for the answer: nothing ends a call the store does not     *)
(* answer.                                                                 *)
(***************************************************************************)
StoreStalls ==
    /\ NoneDone
    /\ ~stalled
    /\ stalled' = TRUE
    /\ UNCHANGED <<secrets, loc_auth, nextId, connUp, lock, poisoned, inStore,
                   now, conf, pc, req, gen, sec, auth, opSteps, fault, issued,
                   resp, last, run>>

\* the store call of worker t returns when the store answers
Answered(t) ==
    /\ ~stalled
    /\ GateRet(t) \/ CreateRet(t) \/ DeleteRet(t) \/ LookupRet(t)
    /\ UNCHANGED <<last, run, stalled>>

NextStall ==
    \/ \E t \in Threads, ep \in Endpoints, parsable \in BOOLEAN,
          key \in ApiKeys \cup {NoVal} :
            (~parsable => key = NoVal) /\ Start(t, ep, parsable, key)
                /\ UNCHANGED <<last, run, stalled>>
    \/ \E t \in Threads : Locking(t)
    \/ \E t \in Threads : Answered(t)
    \/ \E t \in Threads : Finish(t) /\ UNCHANGED <<last, run, stalled>>
    \/ StoreStalls

FairnessStall ==
    \A t \in Threads :
        /\ SF_vars(Answered(t))
        /\ WF_vars(Finish(t) /\ UNCHANGED <<last, run, stalled>>)
        /\ SF_vars(Locking(t))

SpecStall == Init /\ [][NextStall]_vars /\ FairnessStall

(***************************************************************************)
(* Properties.                                                             *)
(***************************************************************************)
RowsOf(table, ident) == {r \in table : r.ident = ident}
KeyBound(key) == \E r \in loc_auth : r.api_key = key
DuplicateMessage == "Database error: duplicate entry"

\* thread t takes the step that returns from the store call of endpoint ep
\* with no failure of the store in this request
Returns(t, eps) ==
    /\ pc[t] = "op_ret"
    /\ req[t].ep \in eps
    /\ pc'[t] = "done"
    /\ fault'[t] = "none"

\* C1: in every reachable state the table holds at most one record per
\* ident, and when a create ends with success or with the duplicate outcome
\* exactly one record of its ident exists.
C1_OneRecordPerIdent ==
    /\ \A r1, r2 \in secrets : r1.ident = r2.ident => r1 = r2
    /\ \A t \in Threads :
         (/\ pc[t] = "done"
          /\ req[t].ep = "create"
          /\ resp[t].status = "true" \/ resp[t].message = DuplicateMessage)
         => Cardinality(RowsOf(secrets, req[t].ident)) = 1

\* a second create of an ident has been answered with the duplicate outcome
C1_Witness ==
    \E t \in Threads :
        /\ pc[t] = "done"
        /\ req[t].ep = "create"
        /\ resp[t].message = DuplicateMessage
        /\ Cardinality(RowsOf(secrets, req[t].ident)) = 1

\* C2: a lifecycle or TOTP step (secret generation, store read, write or
\* delete of the callback, code verification, rendering) has run for a
\* request only if its api_key is present and bound and the gate's lookup
\* succeeded; the callback's part of the handler is entered only then.
C2_GateBeforeOperation ==
    \A t \in Threads :
        (opSteps[t] # {} \/ pc[t] \in {"op_lock", "op_ret"}
            \/ gen[t] # NoToken \/ sec[t] # NoToken)
        => /\ auth[t]
           /\ req[t].api_key # NoVal
           /\ KeyBound(req[t].api_key)

\* a request with an unknown key has been rejected by the gate
C2_Witness ==
    \E t \in Threads :
        /\ pc[t] = "done"
        /\ req[t].api_key # NoVal
        /\ ~KeyBound(req[t].api_key)
        /\ resp[t] = IronErr(400, "Invalid api key")
        /\ opSteps[t] = {}

\* C3: a create whose ident has no record when its INSERT runs ends with
\* status true and the generated secret, which is then the token of the
\* ident's record; a lookup that finds the record returns the secret the
\* last successful create of that ident returned.
C3_CreateThenLookup ==
    [][\A t \in Threads :
        /\ (Returns(t, {"create"}) /\ ~IdentTaken(req[t].ident))
            => /\ resp'[t].http = 200
               /\ resp'[t].status = "true"
               /\ resp'[t].ident = req[t].ident
               /\ resp'[t].secret = gen[t]
               /\ \E r \in secrets' :
                    r.ident = req[t].ident /\ r.token = resp'[t].secret
        /\ (Returns(t, {"verify", "qr", "qr_url"}) /\ IdentTaken(req[t].ident))
            => /\ sec'[t] # NoToken
               /\ sec'[t] = issued[req[t].ident]
      ]_vars

\* a lookup returned the secret a create had returned
C3_Witness ==
    \E t \in Threads :
        /\ pc[t] = "done"
        /\ req[t].ep \in {"verify", "qr", "qr_url"}
        /\ sec[t] # NoToken
        /\ sec[t] = issued[req[t].ident]

\* C4: a create whose ident has a record when its INSERT runs answers
\* 200 {status: false, message: duplicate entry} without a secret and
\* leaves the table as it was; a create that fails on another database
\* error carries another message.
C4_DuplicateCreate ==
    [][\A t \in Threads :
        /\ (Returns(t, {"create"}) /\ IdentTaken(req[t].ident))
            => /\ resp'[t] = JsonFail(DuplicateMessage)
               /\ resp'[t].secret = NoToken
               /\ secrets' = secrets
        /\ (pc[t] = "op_ret" /\ req[t].ep = "create" /\ pc'[t] = "done"
                /\ fault'[t] # "none")
            => resp'[t].message # DuplicateMessage
      ]_vars

\* a create of an ident that had a record was answered as a duplicate, and
\* the record still holds the secret of the first create
C4_Witness ==
    \E t \in Threads :
        /\ pc[t] = "done"
        /\ req[t].ep = "create"
        /\ resp[t] = JsonFail(DuplicateMessage)
        /\ \E r \in secrets :
             r.ident = req[t].ident /\ r.token = issued[req[t].ident]
                /\ r.token # gen[t]

\* C5: a delete whose ident has no record when its DELETE runs answers
\* 200 {status: true} and leaves the table as it was; any delete leaves
\* the records of the other idents as they were and its ident without a
\* record, so a second delete meets the first case.
C5_DeleteAbsent ==
    [][\A t \in Threads :
        Returns(t, {"delete"})
            => /\ resp'[t] = JsonOk
               /\ ~IdentTaken(req[t].ident) => secrets' = secrets
               /\ \A r \in secrets :
                    r.ident # req[t].ident => r \in secrets'
               /\ secrets' \subseteq secrets
               /\ RowsOf(secrets', req[t].ident) = {}
      ]_vars

\* a delete succeeded for an ident without a record, another record exists
C5_Witness ==
    \E t \in Threads :
        /\ pc[t] = "done"
        /\ req[t].ep = "delete"
        /\ resp[t] = JsonOk
        /\ secrets # {}
        /\ \A r \in secrets : r.id = 1
        /\ nextId = 2

\* C6: at most one store call is in progress, and the thread inside it
\* holds the lock.
C6_OneStoreCall ==
    /\ Cardinality(inStore) <= 1
    /\ \A t \in inStore : lock = t

\* a thread is inside a store call while another waits for the lock
C6_Witness ==
    \E t, u \in Threads :
        /\ t # u
        /\ inStore = {t}
        /\ pc[u] \in {"gate_lock", "op_lock"}

\* thread t has ended a verify request whose lookup ran against the store
\* without a failure of the store
Verified(t) ==
    /\ pc[t] = "done"
    /\ req[t].ep = "verify"
    /\ "store_read" \in opSteps[t]
    /\ fault[t] = "none"

\* C7: when the ident of a verify request has a record, the code derived
\* from the record's secret for the current time step is answered
\* verified: true, and a code derived from it for any other step (the
\* handler passes a tolerance of 0 steps) is answered verified: false.
C7_CurrentStepOnly ==
    \A t \in Threads : \A r \in RowsOf(secrets, req[t].ident) :
        Verified(t)
        => /\ req[t].code = get_code(r.token, now)
                => resp[t] = [JsonOk EXCEPT !.verified = "true"]
           /\ \A k \in Steps :
                (k # now /\ req[t].code = get_code(r.token, k))
                => resp[t] = [JsonOk EXCEPT !.verified = "false"]

\* the code of the current step has been verified after time has passed
C7_Witness ==
    \E t \in Threads : \E r \in RowsOf(secrets, req[t].ident) :
        /\ Verified(t)
        /\ now > 0
        /\ req[t].code = get_code(r.token, now)
        /\ resp[t].verified = "true"

\* C8: when the ident of a verify request has a record, the request ends
\* with 200 {status: true, verified: <bool>} whatever code was submitted:
\* verified is true exactly for the code of the current step, and any
\* other string, of the code length or not, gives verified: false.
C8_WrongCodeIsNoError ==
    \A t \in Threads : \A r \in RowsOf(secrets, req[t].ident) :
        Verified(t)
        => /\ resp[t].http = 200
           /\ resp[t].status = "true"
           /\ resp[t].message = NoVal
           /\ resp[t].verified \in {"true", "false"}
           /\ resp[t].verified = "true" <=> req[t].code = get_code(r.token, now)

\* a string that is no 6-digit code was answered verified: false
C8_Witness ==
    \E t \in Threads : \E r \in RowsOf(secrets, req[t].ident) :
        /\ Verified(t)
        /\ req[t].code = ShortCode
        /\ resp[t] = [JsonOk EXCEPT !.verified = "false"]

\* C9 (as claimed): a request without api_key and a request with an
\* unknown api_key are both answered with a 400- or 403-class status and
\* with the same message, which says no more than "invalid API key".
C9_AuthFailuresAlike ==
    \A t \in Threads :
        (/\ pc[t] = "done"
         /\ req[t].parsable
         /\ req[t].api_key = NoVal \/ ~KeyBound(req[t].api_key)
         /\ fault[t] = "none"
         /\ resp[t] # Panicked)
        => /\ resp[t].http \in {400, 401, 403}
           /\ resp[t].message = "Invalid api key"

\* C10 (as claimed): a request that met a store failure other than a
\* uniqueness violation is answered with HTTP 500.
C10_StoreFailureIs500 ==
    \A t \in Threads :
        (pc[t] = "done" /\ fault[t] # "none" /\ resp[t] # Panicked)
        => resp[t].http = 500

\* thread t has ended a verify, qr or qr_url request whose lookup ran
\* against the store without a failure of the store and found no record
LookupMissed(t) ==
    /\ pc[t] = "done"
    /\ req[t].ep \in {"verify", "qr", "qr_url"}
    /\ "store_read" \in opSteps[t]
    /\ fault[t] = "none"
    /\ RowsOf(secrets, req[t].ident) = {}

\* C11 (as claimed): a verify, qr or qr_url request for an ident without a
\* record is answered with the one "Invalid identity" outcome on the three
\* endpoints, and with the status and kind of answer of a bad API key.
C11_NoRecordIsInvalidIdentity ==
    \A t \in Threads :
        LookupMissed(t)
        => /\ resp[t].message = "Invalid identity"
           /\ resp[t].http = IronErr(400, "Invalid api key").http
           /\ resp[t].status = IronErr(400, "Invalid api key").status

\* C12: a request whose key has a binding and whose gate lookup met no
\* store failure is never rejected as "Invalid api key", whatever host the
\* key is bound to; and when the request that ends has the key of a binding
\* and an earlier request had the key of a binding and the same input
\* (body, records, time step, generated secret, failures), it ends with the
\* same response and leaves the same records.
C12_AnyValidKey ==
    [][\A t \in Threads :
        (Ends(t) /\ KeyBound(req'[t].api_key))
        => /\ fault'[t] = "none" => resp'[t] # IronErr(400, "Invalid api key")
           /\ (last.valid /\ KeyBound(last.key) /\ last.input = Input(t))
                => last.output = Output(t)
      ]_vars

\* a create with one key has succeeded as an earlier create of the same
\* ident with the other key had, with the same secret generated
C12_Witness ==
    \E t \in Threads :
        /\ pc[t] = "done"
        /\ req[t].ep = "create"
        /\ resp[t].status = "true"
        /\ last.valid
        /\ last.key = "k1" /\ req[t].api_key = "k2"
        /\ last.input.req = [req[t] EXCEPT !.api_key = NoVal]
        /\ last.input.gen = gen[t]
        /\ last.output.resp = resp[t]

\* C13: the bindings change only in the step in which a create-api-key run
\* has its INSERT accepted, which adds the run's binding and leaves the
\* others as they were; no step of a request, accepted or rejected, changes
\* them.
C13_BindingsOnlyByAdmin ==
    [][/\ loc_auth' # loc_auth
            => /\ run.pc = "adding" /\ run'.pc = "printing"
               /\ loc_auth' = loc_auth \cup
                    {[host |-> run.host, api_key |-> run'.api_key]}
               /\ pc' = pc
       /\ \A t \in Threads : pc'[t] # pc[t] => loc_auth' = loc_auth
      ]_vars

\* a request with a key that has no binding was rejected while the table
\* holds the first binding and one made by a create-api-key run
C13_Witness ==
    \E t \in Threads :
        /\ pc[t] = "done"
        /\ req[t].api_key = "kx"
        /\ resp[t] = IronErr(400, "Invalid api key")
        /\ loc_auth = InitAuth \cup {[host |-> "h2", api_key |-> "k2"]}

\* the secret a response shows in the clear: the secret field of create and
\* the secret parameter of the otpauth URI inside the URL of qr_url (the
\* SVG of qr holds the same URI as a QR code, which is not counted here)
ClearSecret(r) ==
    IF r.secret # NoToken THEN r.secret
    ELSE IF r.qr.form = "url" THEN r.qr.token
    ELSE NoToken

\* C14 (as claimed): a response shows a secret in the clear only if it is
\* the response of a successful create, and then the secret is the one this
\* create generated.
C14_SecretOnlyFromCreate ==
    \A t \in Threads :
        (pc[t] = "done" /\ ClearSecret(resp[t]) # NoToken)
        => /\ req[t].ep = "create"
           /\ resp[t].status = "true"
           /\ ClearSecret(resp[t]) = gen[t]

\* C15 (as claimed): a request that met an error of the store, of whatever
\* kind, ends with a response and not with a panic of its handler.
C15_NoUncaughtFailure ==
    \A t \in Threads :
        (pc[t] = "done" /\ fault[t] # "none") => resp[t] # Panicked

\* what verify, qr and qr_url answer when the lookup fails
NotFoundOutcome(ep) ==
    IF ep = "verify" THEN JsonFail("Invalid identity") ELSE QrDataFail(ep)

\* C16: a lookup whose store call does not fail returns a secret exactly
\* when the ident has a record at that moment, and is answered with the
\* failure outcome of its endpoint when it has none; a delete leaves its
\* ident without a record, and an ident without a record gets one only in
\* the step in which a create of that ident succeeds.
C16_LookupFollowsRecord ==
    [][/\ \A t \in Threads :
            /\ Returns(t, {"verify", "qr", "qr_url"})
                => /\ sec'[t] # NoToken <=> IdentTaken(req[t].ident)
                   /\ ~IdentTaken(req[t].ident)
                        => resp'[t] = NotFoundOutcome(req[t].ep)
            /\ Returns(t, {"delete"}) => ~IdentTaken(req[t].ident)'
       /\ \A i \in Idents :
            (~IdentTaken(i) /\ IdentTaken(i)')
            => \E t \in Threads :
                    /\ Returns(t, {"create"})
                    /\ req[t].ident = i
                    /\ resp'[t].status = "true"
      ]_vars

\* a lookup has failed after the one record ever created was deleted
C16_Witness ==
    \E t \in Threads :
        /\ LookupMissed(t)
        /\ resp[t] = NotFoundOutcome(req[t].ep)
        /\ issued[req[t].ident] = NoToken
        /\ secrets = {}
        /\ nextId = 2

\* C17: a lookup that finds a record hands the handler the token that
\* record holds in the state in which the SELECT runs, whatever was stored
\* for the ident before: verify answers verified: true exactly when the
\* submitted code is the code of that token at the current step, and qr
\* and qr_url render that token.
C17_SecretOfTheLookup ==
    [][\A t \in Threads : \A r \in RowsOf(secrets, req[t].ident) :
        Returns(t, {"verify", "qr", "qr_url"})
        => /\ sec'[t] = r.token
           /\ req[t].ep = "verify"
                => (resp'[t].verified = "true"
                        <=> req[t].code = get_code(r.token, now))
           /\ (req[t].ep # "verify" /\ resp'[t].status = "true")
                => resp'[t].qr.token = r.token
      ]_vars

\* after a record was deleted and the ident created again with another
\* secret, the code of the first secret at the current step was answered
\* verified: false
C17_Witness ==
    \E t \in Threads : \E r \in RowsOf(secrets, req[t].ident) :
        /\ Verified(t)
        /\ secrets = {r}
        /\ r.id = 2
        /\ r.token.seed = "s2"
        /\ sec[t] = r.token
        /\ req[t].code = get_code([r.token EXCEPT !.seed = "s1"], now)
        /\ resp[t].verified = "false"

\* the row get_host_for_api_key returns for a binding
HostRow(host) == OkRes([NoRow EXCEPT !.host = host])

\* C18: for every binding, and for the binding of a create-api-key run
\* from the moment its add_api_key has succeeded, api_key_exists is true
\* and get_host_for_api_key returns the binding's host; for a key without
\* binding api_key_exists is false and get_host_for_api_key fails; the gate
\* has let a request through only if its key has a binding, and has
\* answered "Invalid api key", its lookup not failing, only if it has none.
C18_LookupFindsBinding ==
    /\ \A r \in loc_auth :
         /\ DB_api_key_exists(r.api_key, "none")
         /\ DB_get_host_for_api_key(r.api_key, "none") = HostRow(r.host)
    /\ run.pc \in {"printing", "exited"}
         => /\ DB_api_key_exists(run.api_key, "none")
            /\ DB_get_host_for_api_key(run.api_key, "none") = HostRow(run.host)
    /\ \A k \in ApiKeysTwo :
         ~KeyBound(k)
         => /\ ~DB_api_key_exists(k, "none")
            /\ ~DB_get_host_for_api_key(k, "none").ok
    /\ \A t \in Threads :
         /\ auth[t] => KeyBound(req[t].api_key)
         /\ (/\ pc[t] = "done"
             /\ fault[t] = "none"
             /\ resp[t] = IronErr(400, "Invalid api key"))
            => ~KeyBound(req[t].api_key)

\* a request with the key a create-api-key run has added and printed has
\* passed the gate
C18_Witness ==
    \E t \in Threads :
        /\ run.pc = "exited"
        /\ run.host = "h2"
        /\ run.api_key = "k2"
        /\ req[t].api_key = "k2"
        /\ auth[t]

\* the binding of the run
RunBinding == [host |-> run.host, api_key |-> run.api_key]

\* C19: a create-api-key run that has exited has stored exactly one new
\* binding and printed its key once; the key is printed only when the
\* binding is in the table; a run whose add_api_key failed has printed
\* nothing and stored nothing; a run that was given a host never serves.
C19_OneBindingOnePrint ==
    /\ run.pc = "exited"
         => /\ run.printed = <<run.api_key>>
            /\ RunBinding \notin run.before
            /\ loc_auth = run.before \cup {RunBinding}
    /\ run.pc = "printing"
         => /\ run.printed = <<>>
            /\ RunBinding \notin run.before
            /\ loc_auth = run.before \cup {RunBinding}
    /\ run.pc \in {"adding", "panicked"}
         => /\ run.printed = <<>>
            /\ loc_auth = run.before
    /\ run.host # "" => run.pc # "serving"

\* the second run has added a binding and printed its key, the first run
\* having added none
C19_Witness ==
    /\ run.pc = "exited"
    /\ run.n = 2
    /\ run.printed = <<"k2">>
    /\ loc_auth = InitAuth \cup {[host |-> run.host, api_key |-> "k2"]}

\* C20 (as claimed): requests are handled only under a configuration whose
\* secret_len, default_width and default_height are present and greater
\* than 0, and no request ends in a panic over one of these values (the
\* connection is never lost here and no other panic is possible).
C20_ConfigCheckedAtStartup ==
    \A t \in Threads :
        /\ pc[t] # "idle"
            => /\ conf.secret_len > 0
               /\ conf.default_width > 0
               /\ conf.default_height > 0
        /\ resp[t] # Panicked

\* C21 (as claimed): a worker that is inside a store call leaves it again,
\* whatever the store does.
C21_StoreCallReturns ==
    \A t \in Threads : (t \in inStore) ~> (t \notin inStore)

\* a record as a row of a lookup
SecretRow(r) == OkRes([NoRow EXCEPT !.id = r.id, !.ident = r.ident,
                                    !.token = r.token])

\* C22: for every record of the table, get_secret of its ident returns its
\* id and token, and get_secret_by_id of that id returns its ident and
\* token: both lookups find that one record.
C22_IdentAndIdSameRecord ==
    \A r \in secrets :
        /\ DB_get_secret(r.ident, "none") = SecretRow(r)
        /\ DB_get_secret_by_id(DB_get_secret(r.ident, "none").row.id, "none")
                = SecretRow(r)

\* the table holds two records, and the lookup by the id of the second
\* finds the ident of the second
C22_Witness ==
    \E r1, r2 \in secrets :
        /\ r1.ident = "b" /\ r1.id = 1
        /\ r2.ident = "a" /\ r2.id = 2
        /\ DB_get_secret_by_id(2, "none").row.ident = "a"

\* worker u is in a create of the ident of worker t's create, has generated
\* its secret and waits for the lock
Races(t, u) ==
    /\ t # u
    /\ req[t].ep = "create" /\ req[u].ep = "create"
    /\ req[u].ident = req[t].ident
    /\ pc[u] = "op_lock"
    /\ gen[u] # NoToken

\* C23: of two creates of one ident that has no record, the one whose
\* INSERT runs first answers status true with its own secret, which is then
\* the token of the ident's one record, while the other has stored nothing;
\* a create whose INSERT finds the record answers the duplicate outcome
\* without a secret and leaves the record with the secret that was returned
\* to the successful caller.
C23_ConcurrentCreates ==
    [][\A t \in Threads :
        /\ \A u \in Threads :
             (Returns(t, {"create"}) /\ Races(t, u) /\ ~IdentTaken(req[t].ident))
             => /\ resp'[t].status = "true"
                /\ resp'[t].secret = gen[t]
                /\ \A r \in RowsOf(secrets', req[t].ident) : r.token = gen[t]
                /\ Cardinality(RowsOf(secrets', req[t].ident)) = 1
                /\ pc'[u] = "op_lock"
        /\ (Returns(t, {"create"}) /\ IdentTaken(req[t].ident))
             => /\ resp'[t] = JsonFail(DuplicateMessage)
                /\ secrets' = secrets
                /\ \A r \in RowsOf(secrets', req[t].ident) :
                        r.token = issued[req[t].ident]
      ]_vars

\* the first of two racing creates has been answered status true with its
\* secret while the second, which generated another secret, waits
C23_Witness ==
    \E t, u \in Threads :
        /\ Races(t, u)
        /\ pc[t] = "done"
        /\ resp[t].status = "true"
        /\ resp[t].secret = gen[t]
        /\ gen[u] # gen[t]
        /\ \A r \in RowsOf(secrets, req[t].ident) : r.token = gen[t]

\* C24 (as claimed): when a request has ended, whatever happened to it, the
\* Mutex can be locked again, and a request that met no failure of its own
\* is not ended by a panic.
C24_FailureDoesNotSpread ==
    \A t \in Threads :
        pc[t] = "done"
        => /\ lock # t
           /\ ~poisoned
           /\ fault[t] = "none" => resp[t] # Panicked

\* C25 (as claimed): when every store call returns, a request that has
\* started comes to its end with a response, not holding the lock.
C25_EveryRequestAnswered ==
    \A t \in Threads :
        (pc[t] # "idle") ~> (pc[t] = "done" /\ resp[t] # Panicked /\ lock # t)

\* request r fails authorization or field validation: the body does not
\* parse, api_key is missing or bound to no host, or a field the endpoint
\* needs is missing (the callback reads the fields once the gate let the
\* request pass)
Rejected(r, passed) ==
    \/ ~r.parsable
    \/ r.api_key = NoVal
    \/ r.api_key \notin {b.api_key : b \in loc_auth}
    \/ passed /\ MissingParams(r)

\* C26 (as claimed): a request that fails authorization or field validation
\* ends with HTTP 400, has made no store call but the gate's lookup, and
\* the step that ends it leaves both tables as they were.
C26_RejectedIs400 ==
    [][\A t \in Threads :
        (pc[t] # "done" /\ pc'[t] = "done" /\ Rejected(req'[t], auth'[t]))
        => /\ resp'[t].http = 400
           /\ opSteps'[t] \cap {"store_write", "store_delete", "store_read"} = {}
           /\ secrets' = secrets
           /\ loc_auth' = loc_auth
      ]_vars

\* C27 (as claimed): under a configured secret_len greater than 0, the
\* secret a create has generated has the configured length.
C27_SecretHasConfiguredLength ==
    \A t \in Threads :
        (gen[t] # NoToken /\ conf.secret_len > 0)
        => gen[t].len = conf.secret_len

====
